---- MODULE Spec2Model ----
(***************************************************************************)
(* The incremental population engine of djimaging/processing.py: the      *)
(* record store with its keyed tables, the key sources, the five make     *)
(* steps (Processing, MotionCorrection, MotionCorrectedImages,            *)
(* Segmentation, Fluorescence) and the population pass that drives them.  *)
(***************************************************************************)
EXTENDS Integers, Sequences, FiniteSets, TLC

VARIABLES
    db,         \* the committed record store: table name -> set of rows
    dirExists,  \* per task: the tool's output directory is on disk
    scen,       \* per task: which deployment scenario it lives in
    wk,         \* per worker: position in its population pass
    ncommit,    \* <<table, key>>: commits of a make since the task was created
    passes,     \* number of population passes started so far
    segIn,      \* loader output handed to one Segmentation.make run
    segOut      \* what that run produced

vars == <<db, dirExists, scen, wk, ncommit, passes, segIn, segOut>>

----------------------------------------------------------------------------
(* Bounds of the model *)

NumTasks == 2
MaxPasses == 4
MaxPlanes == 2
MaxMasks == 3

Tasks == 1 .. NumTasks
Workers == {"w1", "w2"}
\* the single-node population runs one pass at a time
Solo == {"w1"}
Null == -1

----------------------------------------------------------------------------
(* Sequence helpers *)

RECURSIVE SumLen(_, _)
\* total number of masks of the planes in `order`
SumLen(order, f) ==
    IF order = << >> THEN 0 ELSE Len(f[Head(order)]) + SumLen(Tail(order), f)

RECURSIVE SortedSeq(_)
\* keys are fetched in primary-key order
SortedSeq(S) ==
    IF S = {} THEN << >>
    ELSE LET m == CHOOSE x \in S : \A y \in S : x <= y
         IN  <<m>> \o SortedSeq(S \ {m})

Range(s) == {s[i] : i \in 1 .. Len(s)}

----------------------------------------------------------------------------
(* The loader's view of an output directory, and the deployments *)

\* tags standing for the arrays the loader hands over
Prob(p, i) == 10 * p + i
Tag(name, p, i) == <<name, p, i>>

\* A loader output: `order` is the order planes.items() yields the planes in,
\* `entries` what data_dir.glob('*') yields, `files` the regular files of these.
Layout(order, iscell, nonrigid, chan2, underRoot, creation, curation) ==
    [order |-> order, iscell |-> iscell, nonrigid |-> nonrigid, nblocks |-> 2,
     chan2 |-> chan2, entries |-> {"ops.npy", "F.npy", "plane0"},
     files |-> {"ops.npy", "F.npy"}, underRoot |-> underRoot,
     creation |-> creation, curation |-> curation, align |-> 0, segch |-> 0]

\* What a task's deployment looks like: its method, whether the path
\* collaborator is provided, whether the tool has already run, whether
\* ScanInfo was ingested, which planes have a ScanInfo.Field, and the
\* directory's content.
Scenario(i) ==
    CASE i = 1 ->  \* suite2p, already run, well-formed
           [method |-> "suite2p", haspath |-> TRUE, dir0 |-> TRUE, info0 |-> TRUE,
            fields |-> {0, 1},
            lay |-> Layout(<<0, 1>>, [p \in {0, 1} |-> IF p = 0 THEN <<TRUE, FALSE>> ELSE <<TRUE>>],
                           {1}, {}, TRUE, 1, 2)]
      [] i = 2 ->  \* caiman: no implementation
           [method |-> "caiman", haspath |-> TRUE, dir0 |-> FALSE, info0 |-> TRUE,
            fields |-> {0},
            lay |-> Layout(<<0>>, [p \in {0} |-> <<TRUE>>], {}, {}, TRUE, 1, 1)]
      [] i = 3 ->  \* suite2p, not run yet; planes yielded 1 then 0, two channels
           [method |-> "suite2p", haspath |-> TRUE, dir0 |-> FALSE, info0 |-> FALSE,
            fields |-> {0, 1},
            lay |-> Layout(<<1, 0>>, [p \in {0, 1} |-> IF p = 0 THEN <<TRUE, TRUE>> ELSE <<FALSE>>],
                           {}, {1}, TRUE, 2, 1)]
      [] i = 4 ->  \* suite2p, a plane without ScanInfo.Field, files outside the root
           [method |-> "suite2p", haspath |-> TRUE, dir0 |-> TRUE, info0 |-> TRUE,
            fields |-> {0},
            lay |-> Layout(<<0, 1>>, [p \in {0, 1} |-> <<TRUE>>], {}, {}, FALSE, 1, 1)]
      [] OTHER ->  \* suite2p, no path collaborator provided
           [method |-> "suite2p", haspath |-> FALSE, dir0 |-> FALSE, info0 |-> TRUE,
            fields |-> {0},
            lay |-> Layout(<<0>>, [p \in {0} |-> <<TRUE>>], {}, {}, TRUE, 1, 1)]

ScenarioIds == {1, 2, 3, 4, 5}

ScanOf(t) == t

----------------------------------------------------------------------------
(* The record store: tables, primary keys, foreign keys *)

TableNames ==
    {"ScanInfo", "ScanInfoField", "PhysicalFile", "ProcessingTask",
     "Processing", "ProcessingOutputFile",
     "MotionCorrection", "RigidMotionCorrection", "NonRigidMotionCorrection", "Block",
     "MotionCorrectedImages", "Segmentation", "Mask", "Cell", "MaskClassification",
     "Fluorescence", "Trace", "DeconvolvedCalciumActivity"}

\* only the tables that name ProcessingTask themselves hang on a task
TaskTablesDirect == {"ProcessingTask", "Processing", "MotionCorrection"}

\* tables whose key extends a ProcessingTask key
TaskTables == TableNames \ {"ScanInfo", "ScanInfoField", "PhysicalFile"}

EmptyDb == [tab \in TableNames |-> {}]

PK(tab, r) ==
    CASE tab = "ScanInfo" -> <<r.scan>>
      [] tab = "ScanInfoField" -> <<r.scan, r.field>>
      [] tab = "PhysicalFile" -> <<r.file_path>>
      [] tab = "ProcessingOutputFile" -> <<r.task, r.file_path>>
      [] tab \in {"RigidMotionCorrection", "NonRigidMotionCorrection", "MotionCorrectedImages"} ->
           <<r.task, r.field>>
      [] tab = "Block" -> <<r.task, r.field, r.block_id>>
      [] tab \in {"Mask", "Cell"} -> <<r.task, r.mask>>
      [] tab = "Trace" -> <<r.task, r.mask, r.fluo_channel>>
      [] OTHER -> <<r.task>>

Has(view, tab, pk) == \E r \in view[tab] : PK(tab, r) = pk

\* the "->" lines of each table definition
FKOk(tab, r, view) ==
    CASE tab = "Processing" -> Has(view, "ProcessingTask", <<r.task>>)
      [] tab = "ProcessingOutputFile" ->
           Has(view, "Processing", <<r.task>>) /\ Has(view, "PhysicalFile", <<r.file_path>>)
      [] tab = "MotionCorrection" -> Has(view, "ProcessingTask", <<r.task>>)
      [] tab \in {"RigidMotionCorrection", "NonRigidMotionCorrection", "MotionCorrectedImages"} ->
           Has(view, "MotionCorrection", <<r.task>>)
           /\ Has(view, "ScanInfoField", <<ScanOf(r.task), r.field>>)
      [] tab = "Block" -> Has(view, "NonRigidMotionCorrection", <<r.task, r.field>>)
      [] tab = "Segmentation" -> Has(view, "MotionCorrection", <<r.task>>)
      [] tab = "Mask" ->
           Has(view, "Segmentation", <<r.task>>)
           /\ Has(view, "ScanInfoField", <<ScanOf(r.task), r.field>>)
      [] tab = "Cell" -> Has(view, "Mask", <<r.task, r.mask>>)
      [] tab = "Fluorescence" -> Has(view, "Segmentation", <<r.task>>)
      [] tab = "Trace" ->
           Has(view, "Fluorescence", <<r.task>>) /\ Has(view, "Cell", <<r.task, r.mask>>)
      [] tab = "MaskClassification" -> Has(view, "Segmentation", <<r.task>>)
      [] tab = "DeconvolvedCalciumActivity" -> Has(view, "Fluorescence", <<r.task>>)
      [] tab = "ScanInfoField" -> Has(view, "ScanInfo", <<r.scan>>)
      [] OTHER -> TRUE

Merge(a, b) == [tab \in TableNames |-> a[tab] \cup b[tab]]

\* keys of a table, projected on the ProcessingTask key
Keys(view, tab) == {r.task : r \in view[tab]}

----------------------------------------------------------------------------
(* The make steps.  Each yields the insert statements it issues, in order,  *)
(* and how it ends: "return", or the error it raises after them.            *)

Stmt(tab, rows) == [tab |-> tab, rows |-> rows, skip |-> FALSE]

\* the files are registered with a plain insert
NoSkipStmt(tab, rows) == [tab |-> tab, rows |-> rows, skip |-> FALSE]

\* insert(..., skip_duplicates=True)
SkipStmt(tab, rows) == [tab |-> tab, rows |-> rows, skip |-> TRUE]
Raise(kind) == [stmts |-> << >>, end |-> kind]

\* (ProcessingMethod * ProcessingTask & key).fetch1('processing_method')
Method(view, key) ==
    IF \E r \in view["ProcessingTask"] : r.task = key
    THEN (CHOOSE r \in view["ProcessingTask"] : r.task = key).processing_method
    ELSE "none"

\* (ScanInfo.Field * ProcessingTask & key & {'plane': plane}).fetch1('KEY') finds a row
HasField(view, key, plane) ==
    Has(view, "ScanInfoField", <<ScanOf(key), plane>>) /\ Has(view, "ProcessingTask", <<key>>)

\* any method is taken for suite2p
SupportedAny(method) == TRUE

\* if method == 'suite2p'
Supported(method) == method = "suite2p"

\* a placeholder row is left for the run that was triggered
NotYetRunPlaceholder(key) ==
    [stmts |-> <<Stmt("Processing",
                      <<[task |-> key, start_time |-> 0, completion_time |-> Null,
                         curation_time |-> Null]>>)>>,
     end |-> "return"]

\* the output directory is not there: start_time is taken, nothing is inserted
NotYetRun(key) == [stmts |-> << >>, end |-> "return"]

RECURSIVE SeqOfSet(_)
\* data_dir.glob('*') as a list
SeqOfSet(S) ==
    IF S = {} THEN << >>
    ELSE LET x == CHOOSE y \in S : TRUE IN <<x>> \o SeqOfSet(S \ {x})

\* f.is_file()
IsFile(lay, f) == f \in lay.files

Processing_make(key, view, e) ==
    LET method == Method(view, key)
        master == Stmt("Processing",
                       <<[task |-> key, start_time |-> Null,
                          completion_time |-> e.lay.creation,
                          curation_time |-> e.lay.curation]>>)
        files == SeqOfSet({f \in e.lay.entries : IsFile(e.lay, f)})
    IN  IF method = "none" THEN Raise("DependencyMissing")
        ELSE IF Supported(method) THEN
            IF ~e.haspath THEN Raise("SourceLocationUnavailable")
            ELSE IF e.exists THEN
                IF ~e.lay.underRoot
                THEN [stmts |-> <<master>>, end |-> "MalformedSource"]
                ELSE [stmts |-> <<master,
                                  SkipStmt("PhysicalFile",
                                           [i \in 1 .. Len(files) |-> [file_path |-> files[i]]]),
                                  Stmt("ProcessingOutputFile",
                                       [i \in 1 .. Len(files) |->
                                            [task |-> key, file_path |-> files[i]]])>>,
                      end |-> "return"]
            ELSE NotYetRun(key)
        ELSE Raise("UnsupportedMethod")

\* the Block rows of one plane: enumerate(zip(xblock, yblock, yoff1.T, xoff1.T))
\* unpacked as (b_y, b_x, bshift_y, bshift_x)
BlockRows(key, p, lay) ==
    [b \in 1 .. lay.nblocks |->
        [task |-> key, field |-> p, block_id |-> b - 1,
         block_y |-> Tag("xblock", p, b - 1), block_x |-> Tag("yblock", p, b - 1),
         y_shifts |-> Tag("yoff1", p, b - 1), x_shifts |-> Tag("xoff1", p, b - 1)]]

\* every plane is taken for non-rigidly corrected
NonRigidAlways(lay, p) == TRUE

\* if s2p.ops['nonrigid']
NonRigidUsed(lay, p) == p \in lay.nonrigid

RECURSIVE McPlanes(_, _, _, _)
\* the loop over s2p_loader.planes.items() of MotionCorrection.make
McPlanes(key, view, lay, order) ==
    IF order = << >> THEN [stmts |-> << >>, end |-> "return"]
    ELSE LET p == Head(order)
             rest == McPlanes(key, view, lay, Tail(order))
             rigid == Stmt("RigidMotionCorrection",
                           <<[task |-> key, field |-> p,
                              y_shifts |-> Tag("yoff", p, 0), x_shifts |-> Tag("xoff", p, 0),
                              outlier_frames |-> Tag("badframes", p, 0)]>>)
             nonrigid == Stmt("NonRigidMotionCorrection",
                              <<[task |-> key, field |-> p, block_count |-> lay.nblocks,
                                 outlier_frames |-> Tag("badframes", p, 0)]>>)
         IN  IF ~HasField(view, key, p) THEN [stmts |-> << >>, end |-> "MalformedSource"]
             ELSE [stmts |-> <<rigid>>
                             \o (IF NonRigidUsed(lay, p)
                                 THEN <<nonrigid, Stmt("Block", BlockRows(key, p, lay))>>
                                 ELSE << >>)
                             \o rest.stmts,
                   end |-> rest.end]

MotionCorrection_make(key, view, e) ==
    LET method == Method(view, key)
        master == Stmt("MotionCorrection", <<[task |-> key, mc_channel |-> e.lay.align]>>)
        loop == McPlanes(key, view, e.lay, e.lay.order)
    IN  IF method = "none" THEN Raise("DependencyMissing")
        ELSE IF Supported(method) THEN
            IF ~e.haspath THEN Raise("SourceLocationUnavailable")
            ELSE IF ~e.exists THEN Raise("SourceNotFound")
            ELSE IF 0 \notin Range(e.lay.order) THEN Raise("MalformedSource")
            ELSE [stmts |-> <<master>> \o loop.stmts, end |-> loop.end]
        ELSE Raise("UnsupportedMethod")

RECURSIVE MciPlanes(_, _, _, _)
\* the loop of MotionCorrectedImages.make, written over s2p_loader.items(): taken
\* to yield the planes as s2p_loader.planes.items() does
MciPlanes(key, view, lay, order) ==
    IF order = << >> THEN [stmts |-> << >>, end |-> "return"]
    ELSE LET p == Head(order)
             rest == MciPlanes(key, view, lay, Tail(order))
         IN  IF ~HasField(view, key, p) THEN [stmts |-> << >>, end |-> "MalformedSource"]
             ELSE [stmts |-> <<Stmt("MotionCorrectedImages",
                                    <<[task |-> key, field |-> p,
                                       ref_image |-> Tag("ref", p, 0),
                                       average_image |-> Tag("mean", p, 0)]>>)>>
                             \o rest.stmts,
                   end |-> rest.end]

MotionCorrectedImages_make(key, view, e) ==
    LET method == Method(view, key)
    IN  IF method = "none" THEN Raise("DependencyMissing")
        ELSE IF Supported(method) THEN
            IF ~e.haspath THEN Raise("SourceLocationUnavailable")
            ELSE IF ~e.exists THEN Raise("SourceNotFound")
            ELSE MciPlanes(key, view, e.lay, e.lay.order)
        ELSE Raise("UnsupportedMethod")

\* the ids restart at 0 on every plane
MaskIdPerPlane(mask_idx, mask_count) == mask_idx

\* 'mask': mask_idx + mask_count
MaskId(mask_idx, mask_count) == mask_idx + mask_count

RECURSIVE SegMasks(_, _, _, _, _)
\* the loop of Segmentation.make that builds the list `masks`
SegMasks(key, view, lay, order, masks) ==
    IF order = << >> THEN [masks |-> masks, end |-> "return"]
    ELSE LET p == Head(order)
             mask_count == Len(masks)
             new == [i \in 1 .. Len(lay.iscell[p]) |->
                        [task |-> key, mask |-> MaskId(i - 1, mask_count), field |-> p,
                         is_cell |-> lay.iscell[p][i], cell_prob |-> Prob(p, i - 1),
                         stat |-> Tag("stat", p, i - 1)]]
         IN  IF ~HasField(view, key, p) THEN [masks |-> masks, end |-> "MalformedSource"]
             ELSE SegMasks(key, view, lay, Tail(order), masks \o new)

Segmentation_make(key, view, e) ==
    LET method == Method(view, key)
        master == Stmt("Segmentation", <<[task |-> key, seg_channel |-> e.lay.segch]>>)
        loop == SegMasks(key, view, e.lay, e.lay.order, << >>)
        maskRows == [i \in 1 .. Len(loop.masks) |->
                        [task |-> key, mask |-> loop.masks[i].mask,
                         field |-> loop.masks[i].field, stat |-> loop.masks[i].stat]]
        cellRows == [i \in 1 .. Len(loop.masks) |->
                        [task |-> key, mask |-> loop.masks[i].mask,
                         is_cell |-> loop.masks[i].is_cell,
                         cell_prob |-> loop.masks[i].cell_prob]]
    IN  IF method = "none" THEN Raise("DependencyMissing")
        ELSE IF Supported(method) THEN
            IF ~e.haspath THEN Raise("SourceLocationUnavailable")
            ELSE IF ~e.exists THEN Raise("SourceNotFound")
            ELSE IF 0 \notin Range(e.lay.order) THEN Raise("MalformedSource")
            ELSE IF loop.end # "return" THEN [stmts |-> <<master>>, end |-> loop.end]
            ELSE [stmts |-> <<master, Stmt("Mask", maskRows), Stmt("Cell", cellRows)>>,
                  end |-> "return"]
        ELSE Raise("UnsupportedMethod")

RECURSIVE FluoTraces(_, _, _, _)
\* the loop of Fluorescence.make that builds the list `fluo_traces`
FluoTraces(key, lay, order, fluo_traces) ==
    IF order = << >> THEN fluo_traces
    ELSE LET p == Head(order)
             n == Len(lay.iscell[p])
             mask_count == Len(fluo_traces)
             chan1 == [i \in 1 .. n |->
                          [task |-> key, mask |-> (i - 1) + mask_count, fluo_channel |-> 0,
                           fluo |-> Tag("F", p, i - 1), neuropil_fluo |-> Tag("Fneu", p, i - 1)]]
             chan2 == [i \in 1 .. n |->
                          [task |-> key, mask |-> (i - 1) + mask_count, fluo_channel |-> 1,
                           fluo |-> Tag("F_chan2", p, i - 1),
                           neuropil_fluo |-> Tag("Fneu_chan2", p, i - 1)]]
         IN  FluoTraces(key, lay, Tail(order),
                        fluo_traces \o chan1 \o (IF p \in lay.chan2 THEN chan2 ELSE << >>))

\* the traces are inserted first and the master row after them
Fluorescence_makeTracesFirst(key, view, e) ==
    LET method == Method(view, key)
    IN  IF method = "none" THEN Raise("DependencyMissing")
        ELSE IF Supported(method) THEN
            IF ~e.haspath THEN Raise("SourceLocationUnavailable")
            ELSE IF ~e.exists THEN Raise("SourceNotFound")
            ELSE [stmts |-> <<Stmt("Trace", FluoTraces(key, e.lay, e.lay.order, << >>)),
                              Stmt("Fluorescence", <<[task |-> key]>>)>>,
                  end |-> "return"]
        ELSE Raise("UnsupportedMethod")

Fluorescence_make(key, view, e) ==
    LET method == Method(view, key)
    IN  IF method = "none" THEN Raise("DependencyMissing")
        ELSE IF Supported(method) THEN
            IF ~e.haspath THEN Raise("SourceLocationUnavailable")
            ELSE IF ~e.exists THEN Raise("SourceNotFound")
            ELSE [stmts |-> <<Stmt("Fluorescence", <<[task |-> key]>>),
                              Stmt("Trace", FluoTraces(key, e.lay, e.lay.order, << >>))>>,
                  end |-> "return"]
        ELSE Raise("UnsupportedMethod")

\* the entity types with a make step
Computed ==
    {"Processing", "MotionCorrection", "MotionCorrectedImages", "Segmentation", "Fluorescence"}

Make(T, key, view, e) ==
    CASE T = "Processing" -> Processing_make(key, view, e)
      [] T = "MotionCorrection" -> MotionCorrection_make(key, view, e)
      [] T = "MotionCorrectedImages" -> MotionCorrectedImages_make(key, view, e)
      [] T = "Segmentation" -> Segmentation_make(key, view, e)
      [] OTHER -> Fluorescence_make(key, view, e)

----------------------------------------------------------------------------
(* Key sources *)

\* Processing takes every ProcessingTask, whether its scan has ScanInfo or not
KeySourceAllTasks(T, view) ==
    CASE T \in {"Processing", "MotionCorrection"} -> Keys(view, "ProcessingTask")
      [] T = "MotionCorrectedImages" -> Keys(view, "MotionCorrection")
      [] T = "Segmentation" -> Keys(view, "MotionCorrection")
      [] OTHER -> Keys(view, "Segmentation")

\* key_source of each table: ProcessingTask & ScanInfo for Processing,
\* MotionCorrection() for MotionCorrectedImages, the primary parents otherwise
KeySource(T, view) ==
    CASE T = "Processing" ->
           {k \in Keys(view, "ProcessingTask") : Has(view, "ScanInfo", <<ScanOf(k)>>)}
      [] T = "MotionCorrection" -> Keys(view, "ProcessingTask")
      [] T = "MotionCorrectedImages" -> Keys(view, "MotionCorrection")
      [] T = "Segmentation" -> Keys(view, "MotionCorrection")
      [] OTHER -> Keys(view, "Segmentation")

\* the target's keys are not subtracted
EligibleAgain(T, view) == KeySource(T, view)

\* key_source - target: the keys a population pass will attempt
Eligible(T, view) == KeySource(T, view) \ Keys(view, T)

\* the resolver reserves the keys it hands out with a placeholder row
ResolveReserving(T, view) ==
    [keys |-> Eligible(T, view),
     store |-> [view EXCEPT ![T] = @ \cup {[task |-> k, field |-> 0] : k \in Eligible(T, view)}]]

\* one call of the resolver: the keys it returns and the store it leaves
Resolve(T, view) == [keys |-> Eligible(T, view), store |-> view]

----------------------------------------------------------------------------
(* The state of a deployment *)

\* what the make steps see of task t's output directory
Env(t) ==
    [haspath |-> Scenario(scen[t]).haspath, exists |-> dirExists[t],
     lay |-> Scenario(scen[t]).lay]

IdleWorker ==
    [pc |-> "idle", T |-> "none", todo |-> << >>, snap |-> {}, key |-> 0,
     stmts |-> << >>, end |-> "none", tx |-> EmptyDb, out |-> [t \in Tasks |-> "none"]]

ScanInfoRows(s, i) ==
    [EmptyDb EXCEPT !["ScanInfo"] = {[scan |-> s]},
                    !["ScanInfoField"] = {[scan |-> s, field |-> f] : f \in Scenario(i).fields}]

RECURSIVE InitialDb(_, _)
\* the upstream ScanInfo ingested before the pipeline starts
InitialDb(S, sc) ==
    IF S = {} THEN EmptyDb
    ELSE LET t == CHOOSE x \in S : TRUE
         IN  IF Scenario(sc[t]).info0
             THEN Merge(ScanInfoRows(ScanOf(t), sc[t]), InitialDb(S \ {t}, sc))
             ELSE InitialDb(S \ {t}, sc)

\* the deployments checked: consecutive scenarios, from any first one, and
\* every other scenario from the first
Deployments ==
    {[t \in Tasks |-> ((t - 1 + r) % Cardinality(ScenarioIds)) + 1] :
        r \in 0 .. Cardinality(ScenarioIds) - 1}
    \cup {[t \in Tasks |-> ((2 * (t - 1)) % Cardinality(ScenarioIds)) + 1]}

NoSeg == [stmts |-> << >>, end |-> "none"]
NoLayout == Scenario(2).lay

Init ==
    /\ scen \in Deployments
    /\ db = InitialDb(Tasks, scen)
    /\ dirExists = [t \in Tasks |-> Scenario(scen[t]).dir0]
    /\ wk = [w \in Workers |-> IdleWorker]
    /\ ncommit = [x \in Computed \X Tasks |-> 0]
    /\ passes = 0
    /\ segIn = NoLayout
    /\ segOut = NoSeg

----------------------------------------------------------------------------
(* Manual and upstream operations *)

\* ProcessingTask.insert1: the user asks for a param set to be run on a scan
CreateTask(t) ==
    /\ ~Has(db, "ProcessingTask", <<t>>)
    /\ db' = [db EXCEPT !["ProcessingTask"] =
                 @ \cup {[task |-> t, processing_method |-> Scenario(scen[t]).method]}]
    /\ UNCHANGED <<dirExists, scen, wk, ncommit, passes, segIn, segOut>>

\* rows of an open transaction that hang on task t lock it against deletion
Locked(t) ==
    \E w \in Workers, tab \in TaskTables : \E r \in wk[w].tx[tab] : r.task = t

\* (ProcessingTask & key).delete(): cascades to every table below it
DeleteTask(t) ==
    /\ Has(db, "ProcessingTask", <<t>>)
    /\ ~Locked(t)
    /\ db' = [tab \in TableNames |->
                 IF tab \in TaskTables THEN {r \in db[tab] : r.task # t} ELSE db[tab]]
    /\ ncommit' = [x \in Computed \X Tasks |-> IF x[2] = t THEN 0 ELSE ncommit[x]]
    /\ UNCHANGED <<dirExists, scen, wk, passes, segIn, segOut>>

\* ScanInfo and its Field rows are ingested for a scan
AddScanInfo(s) ==
    /\ ~Has(db, "ScanInfo", <<s>>)
    /\ db' = Merge(db, ScanInfoRows(s, scen[s]))
    /\ UNCHANGED <<dirExists, scen, wk, ncommit, passes, segIn, segOut>>

\* the tables declared Computed without a make step
Unmade == {"MaskClassification", "DeconvolvedCalciumActivity"}

\* a row of such a table is inserted for a task whose parent row is there
DirectInsert(t, tab) ==
    /\ ~Has(db, tab, <<t>>)
    /\ FKOk(tab, [task |-> t], db)
    /\ db' = [db EXCEPT ![tab] = @ \cup {[task |-> t]}]
    /\ UNCHANGED <<dirExists, scen, wk, ncommit, passes, segIn, segOut>>

\* the external tool finishes and its output directory shows up
DirAppears(t) ==
    /\ ~dirExists[t]
    /\ Scenario(scen[t]).method = "suite2p"
    /\ Scenario(scen[t]).haspath
    /\ dirExists' = [dirExists EXCEPT ![t] = TRUE]
    /\ UNCHANGED <<db, scen, wk, ncommit, passes, segIn, segOut>>

----------------------------------------------------------------------------
(* The population pass *)

\* a pass over T starts: the pending keys are resolved once, from the store
BeginPass(w, T) ==
    /\ wk[w].pc = "idle"
    /\ Resolve(T, db).keys # {}
    /\ wk' = [wk EXCEPT ![w] = [IdleWorker EXCEPT !.pc = "pass", !.T = T,
                                              !.todo = SortedSeq(Resolve(T, db).keys),
                                              !.snap = Resolve(T, db).keys]]
    /\ db' = Resolve(T, db).store
    /\ UNCHANGED <<dirExists, scen, ncommit, segIn, segOut>>

\* one of the passes of a bounded session
StartPass(w, T) ==
    /\ passes < MaxPasses
    /\ BeginPass(w, T)
    /\ passes' = passes + 1

\* passes run again and again, as long as some key is pending
RepeatPass(w, T) ==
    /\ BeginPass(w, T)
    /\ UNCHANGED passes

\* the first failure ends the pass
RemainingUntilFailure(todo, outcome) ==
    IF outcome \in {"succeeded", "pending", "skipped", "duplicate"} THEN todo ELSE << >>

\* the keys still to attempt once a key ended with `outcome`: a failure is
\* attributed to its key and the pass goes on
Remaining(todo, outcome) == todo

\* what is reported for a key whose make ended without a transaction to commit
Reported(end) == IF end = "return" THEN "pending" ELSE end

\* the worker takes the next key: it is skipped when already present, else make
\* runs; a make that issues no insert ends here
NextKey(w) ==
    /\ wk[w].pc = "pass"
    /\ wk[w].todo # << >>
    /\ LET k == Head(wk[w].todo)
           T == wk[w].T
           m == Make(T, k, db, Env(k))
           base == [wk[w] EXCEPT !.todo = Tail(@), !.key = k]
       IN  wk' = [wk EXCEPT ![w] =
                     IF k \in Keys(db, T) THEN [base EXCEPT !.out[k] = "skipped"]
                     ELSE IF m.stmts = << >>
                     THEN [base EXCEPT !.todo = Remaining(@, Reported(m.end)),
                                       !.out[k] = Reported(m.end)]
                     ELSE [base EXCEPT !.pc = "run", !.stmts = m.stmts, !.end = m.end]]
    /\ UNCHANGED <<db, dirExists, scen, ncommit, passes, segIn, segOut>>

PKs(tab, rows) == {PK(tab, rows[i]) : i \in 1 .. Len(rows)}

\* every insert behaves as with skip_duplicates
DuplicateNever(st, view) == FALSE

\* insert / insert1 without skip_duplicates: a key that is there already, or
\* twice in the rows, is a DuplicateError
Duplicate(st, view) ==
    \/ \E i \in 1 .. Len(st.rows) : Has(view, st.tab, PK(st.tab, st.rows[i]))
    \/ Cardinality(PKs(st.tab, st.rows)) # Len(st.rows)

\* the rows a statement adds: skip_duplicates drops those already there
NewRows(st, view) ==
    IF st.skip THEN {r \in Range(st.rows) : ~Has(view, st.tab, PK(st.tab, r))}
    ELSE Range(st.rows)

\* rows go in whatever they refer to
DanglingNever(st, view) == FALSE

\* a row to insert refers to a parent row that is not there: IntegrityError
Dangling(st, view) == \E r \in NewRows(st, view) : ~FKOk(st.tab, r, view)

\* another open transaction holds a row with one of these keys: the insert waits
Blocked(w, st) ==
    \E v \in Workers \ {w} : \E r \in wk[v].tx[st.tab] : PK(st.tab, r) \in PKs(st.tab, st.rows)

\* the key's transaction is over and the outcome recorded
Closed(w, outcome) ==
    [wk[w] EXCEPT !.pc = "pass", !.stmts = << >>, !.end = "none", !.tx = EmptyDb,
                  !.todo = Remaining(@, outcome), !.out[wk[w].key] = outcome]

\* whatever was written stays
KeptAlways(tx, end) == tx

\* the rows of a transaction that become visible when its make ended with `end`
Kept(tx, end) == IF end = "return" THEN tx ELSE EmptyDb

\* a DuplicateKey on the entity's own row is another worker's success
Absorbed(T, tab) == IF tab = T THEN "duplicate" ELSE "DuplicateKey"

\* the next insert statement of the running make
Exec(w) ==
    /\ wk[w].pc = "run"
    /\ wk[w].stmts # << >>
    /\ LET st == Head(wk[w].stmts)
           view == Merge(db, wk[w].tx)
       IN  /\ ~Blocked(w, st)
           /\ wk' = [wk EXCEPT ![w] =
                        IF ~st.skip /\ Duplicate(st, view)
                        THEN Closed(w, Absorbed(wk[w].T, st.tab))
                        ELSE IF Dangling(st, view)
                        THEN Closed(w, "DependencyMissing")
                        ELSE [wk[w] EXCEPT !.stmts = Tail(@),
                                           !.tx[st.tab] = @ \cup NewRows(st, view)]]
    /\ UNCHANGED <<db, dirExists, scen, ncommit, passes, segIn, segOut>>

\* make ended: its rows become visible together when it returned, and none
\* of them when it raised
Finish(w) ==
    /\ wk[w].pc = "run"
    /\ wk[w].stmts = << >>
    /\ db' = Merge(db, Kept(wk[w].tx, wk[w].end))
    /\ ncommit' = [ncommit EXCEPT ![<<wk[w].T, wk[w].key>>] =
                       IF wk[w].end = "return" THEN @ + 1 ELSE @]
    /\ wk' = [wk EXCEPT ![w] =
                 Closed(w, IF wk[w].end = "return" THEN "succeeded" ELSE wk[w].end)]
    /\ UNCHANGED <<dirExists, scen, passes, segIn, segOut>>

\* an injected fault: the worker dies between two inserts of a key
Fault(w) ==
    /\ wk[w].pc = "run"
    /\ wk[w].stmts # << >>
    /\ wk[w].tx # EmptyDb
    /\ db' = Merge(db, Kept(wk[w].tx, "Fault"))
    /\ wk' = [wk EXCEPT ![w] = Closed(w, "Fault")]
    /\ UNCHANGED <<dirExists, scen, ncommit, passes, segIn, segOut>>

\* every key of the pass has its outcome: the summary is returned
EndPass(w) ==
    /\ wk[w].pc = "pass"
    /\ wk[w].todo = << >>
    /\ wk' = [wk EXCEPT ![w] = IdleWorker]
    /\ UNCHANGED <<db, dirExists, scen, ncommit, passes, segIn, segOut>>

Next ==
    \/ \E t \in Tasks : CreateTask(t)
    \/ \E t \in Tasks : DeleteTask(t)
    \/ \E t \in Tasks : AddScanInfo(ScanOf(t))
    \/ \E t \in Tasks : DirAppears(t)
    \/ \E t \in Tasks, tab \in Unmade : DirectInsert(t, tab)
    \/ \E w \in Solo, T \in Computed : StartPass(w, T)
    \/ \E w \in Solo : NextKey(w)
    \/ \E w \in Solo : Exec(w)
    \/ \E w \in Solo : Finish(w)
    \/ \E w \in Solo : Fault(w)
    \/ \E w \in Solo : EndPass(w)

Spec == Init /\ [][Next]_vars

----------------------------------------------------------------------------
(* Two workers racing over a deployment whose tasks are all created, whose  *)
(* scans are all ingested and whose tools have all run                       *)

RECURSIVE AllScanInfo(_, _)
AllScanInfo(S, sc) ==
    IF S = {} THEN EmptyDb
    ELSE LET t == CHOOSE x \in S : TRUE
         IN  Merge(ScanInfoRows(ScanOf(t), sc[t]), AllScanInfo(S \ {t}, sc))

RaceInit ==
    /\ scen \in Deployments
    /\ db = [AllScanInfo(Tasks, scen) EXCEPT !["ProcessingTask"] =
                 {[task |-> t, processing_method |-> Scenario(scen[t]).method] : t \in Tasks}]
    /\ dirExists = [t \in Tasks |->
                       Scenario(scen[t]).method = "suite2p" /\ Scenario(scen[t]).haspath]
    /\ wk = [w \in Workers |-> IdleWorker]
    /\ ncommit = [x \in Computed \X Tasks |-> 0]
    /\ passes = 0
    /\ segIn = NoLayout
    /\ segOut = NoSeg

RaceNext ==
    \/ \E w \in Workers, T \in Computed : StartPass(w, T)
    \/ \E w \in Workers : NextKey(w)
    \/ \E w \in Workers : Exec(w)
    \/ \E w \in Workers : Finish(w)
    \/ \E w \in Workers : EndPass(w)

SpecRace == RaceInit /\ [][RaceNext]_vars

----------------------------------------------------------------------------
(* Passes repeated over a deployment whose tasks all use suite2p, whose      *)
(* scans are all ingested and whose output directories are all there and     *)
(* well-formed, with or without second-channel traces                         *)

WellFormedIds == {1, 3}

LiveInit ==
    /\ scen \in [Tasks -> WellFormedIds]
    /\ db = [AllScanInfo(Tasks, scen) EXCEPT !["ProcessingTask"] =
                 {[task |-> t, processing_method |-> Scenario(scen[t]).method] : t \in Tasks}]
    /\ dirExists = [t \in Tasks |-> TRUE]
    /\ wk = [w \in Workers |-> IdleWorker]
    /\ ncommit = [x \in Computed \X Tasks |-> 0]
    /\ passes = 0
    /\ segIn = NoLayout
    /\ segOut = NoSeg

LiveNext ==
    \/ \E w \in Solo, T \in Computed : RepeatPass(w, T)
    \/ \E w \in Solo : NextKey(w)
    \/ \E w \in Solo : Exec(w)
    \/ \E w \in Solo : Finish(w)
    \/ \E w \in Solo : EndPass(w)

SpecLive == LiveInit /\ [][LiveNext]_vars /\ WF_vars(LiveNext)

----------------------------------------------------------------------------
(* Segmentation.make as a function of the loader output *)

BoolSeqs == UNION {[1 .. m -> BOOLEAN] : m \in 0 .. MaxMasks}
PlaneIds == 0 .. MaxPlanes - 1

\* the orders a plane collection can yield its planes in
Orders ==
    {o \in UNION {[1 .. m -> PlaneIds] : m \in 1 .. MaxPlanes} :
        \A i, j \in 1 .. Len(o) : i # j => o[i] # o[j]}

\* the store a Segmentation pass starts from: task 1 with every plane a field
SegView ==
    [EmptyDb EXCEPT !["ProcessingTask"] = {[task |-> 1, processing_method |-> "suite2p"]},
                    !["ScanInfo"] = {[scan |-> ScanOf(1)]},
                    !["ScanInfoField"] = {[scan |-> ScanOf(1), field |-> f] : f \in PlaneIds}]

SegInit ==
    /\ \E o \in Orders : \E ic \in [Range(o) -> BoolSeqs] :
           segIn = Layout(o, ic, {}, {}, TRUE, 1, 1)
    /\ segOut = NoSeg
    /\ scen = [t \in Tasks |-> 1]
    /\ db = SegView
    /\ dirExists = [t \in Tasks |-> TRUE]
    /\ wk = [w \in Workers |-> IdleWorker]
    /\ ncommit = [x \in Computed \X Tasks |-> 0]
    /\ passes = 0

SegRun ==
    /\ segOut = NoSeg
    /\ segOut' = Segmentation_make(1, db, [haspath |-> TRUE, exists |-> TRUE, lay |-> segIn])
    /\ UNCHANGED <<db, dirExists, scen, wk, ncommit, passes, segIn>>

SpecSeg == SegInit /\ [][SegRun]_vars

----------------------------------------------------------------------------
(* Claims about the mask numbering *)

\* the rows of the i-th statement of a make result, as a set
RowsAt(m, i) == Range(m.stmts[i].rows)

\* C5: a Segmentation.make that returns inserted one Segmentation row, then N
\* Mask rows and N Cell rows with the ids 0..N-1 (N the total mask count), and
\* the Cell with id n_1 + ... + n_(j-1) + i carries the is_cell flag and the
\* probability of local mask i of the j-th plane yielded
SegNumbering ==
    segOut.end = "return" =>
        LET order == segIn.order
            N == SumLen(order, segIn.iscell)
        IN  /\ Len(segOut.stmts) = 3
            /\ segOut.stmts[1].tab = "Segmentation" /\ Len(segOut.stmts[1].rows) = 1
            /\ segOut.stmts[2].tab = "Mask" /\ Len(segOut.stmts[2].rows) = N
            /\ {r.mask : r \in RowsAt(segOut, 2)} = 0 .. N - 1
            /\ segOut.stmts[3].tab = "Cell" /\ Len(segOut.stmts[3].rows) = N
            /\ {r.mask : r \in RowsAt(segOut, 3)} = 0 .. N - 1
            /\ \A j \in 1 .. Len(order) : \A i \in 1 .. Len(segIn.iscell[order[j]]) :
                   \E r \in RowsAt(segOut, 3) :
                       /\ r.mask = SumLen(SubSeq(order, 1, j - 1), segIn.iscell) + i - 1
                       /\ r.is_cell = segIn.iscell[order[j]][i]
                       /\ r.cell_prob = Prob(order[j], i - 1)

\* the end-to-end example: planes 0 and 1 with is_cell [T,F,T] and [T,T] give the
\* ids 0..4 with is_cell [T,F,T,T,T]
SegNumberingWitness ==
    /\ segOut.end = "return"
    /\ segIn.order = <<0, 1>>
    /\ segIn.iscell[0] = <<TRUE, FALSE, TRUE>>
    /\ segIn.iscell[1] = <<TRUE, TRUE>>
    /\ Len(segOut.stmts) = 3
    /\ [i \in 1 .. Len(segOut.stmts[3].rows) |-> segOut.stmts[3].rows[i].mask] = <<0, 1, 2, 3, 4>>
    /\ [i \in 1 .. Len(segOut.stmts[3].rows) |-> segOut.stmts[3].rows[i].is_cell]
           = <<TRUE, FALSE, TRUE, TRUE, TRUE>>

\* C6: the id of local mask i of plane p is i plus the mask count of all planes
\* with a smaller identifier, whatever order the planes are yielded in
AscendingPlaneIds ==
    segOut.end = "return" =>
        \A r \in RowsAt(segOut, 2) :
            r.mask = r.stat[3]
                     + SumLen(SortedSeq({q \in Range(segIn.order) : q < r.field}), segIn.iscell)

----------------------------------------------------------------------------
(* Claims about the population engine *)

\* the tables that hold the rows of one key of T
Parts(T) ==
    CASE T = "Processing" -> {"Processing", "ProcessingOutputFile"}
      [] T = "MotionCorrection" ->
           {"MotionCorrection", "RigidMotionCorrection", "NonRigidMotionCorrection", "Block"}
      [] T = "MotionCorrectedImages" -> {"MotionCorrectedImages"}
      [] T = "Segmentation" -> {"Segmentation", "Mask", "Cell"}
      [] OTHER -> {"Fluorescence", "Trace"}

RowsFor(view, T, k) == [tab \in Parts(T) |-> {r \in view[tab] : r.task = k}]
NoRows(T) == [tab \in Parts(T) |-> {}]

\* the rows one uninterrupted make of key k writes to T's tables
ScriptRows(m, T) ==
    [tab \in Parts(T) |->
        UNION {Range(m.stmts[i].rows) : i \in {j \in 1 .. Len(m.stmts) : m.stmts[j].tab = tab}}]
FullMake(T, k) == Make(T, k, db, [Env(k) EXCEPT !.exists = TRUE])

Failures ==
    {"UnsupportedMethod", "SourceLocationUnavailable", "SourceNotFound", "MalformedSource",
     "DependencyMissing", "DuplicateKey", "Fault"}

\* C1: the store holds, for every key of every computed table, either no row
\* at all or the complete row set of a make that returned; a make that failed
\* after some of its inserts leaves no row of the key
AllOrNothing ==
    \A T \in Computed, k \in Tasks :
        IF ncommit[<<T, k>>] > 0
        THEN FullMake(T, k).end = "return" /\ RowsFor(db, T, k) = ScriptRows(FullMake(T, k), T)
        ELSE RowsFor(db, T, k) = NoRows(T)

\* a worker failed between two inserts of a key and the key has no row
AllOrNothingWitness ==
    \E w \in Workers, k \in Tasks :
        /\ wk[w].pc = "pass" /\ wk[w].out[k] = "Fault"
        /\ RowsFor(db, wk[w].T, k) = NoRows(wk[w].T)

\* C2: every row's parents are present, in every table
ReferentialIntegrity == \A tab \in TableNames : \A r \in db[tab] : FKOk(tab, r, db)

\* the deepest part rows of a task are there
ReferentialIntegrityWitness ==
    \E k \in Tasks :
        /\ \E r \in db["Trace"] : r.task = k
        /\ \E r \in db["Block"] : r.task = k
        /\ \E r \in db["Cell"] : r.task = k

\* C4: a key whose make succeeded is not eligible again, as long as it is not
\* deleted
MonotonicShrink ==
    \A T \in Computed, k \in Tasks : ncommit[<<T, k>>] > 0 => k \notin Eligible(T, db)

\* MotionCorrectedImages was made for a key and a later pass was started
MonotonicShrinkWitness ==
    \E k \in Tasks, w \in Workers :
        /\ ncommit[<<"MotionCorrectedImages", k>>] > 0
        /\ wk[w].pc = "pass" /\ wk[w].T # "MotionCorrectedImages"

\* worker w takes key k as the next key of its pass over T
Takes(w, T, k) ==
    /\ wk[w].pc = "pass" /\ wk[w].T = T
    /\ wk[w].todo # << >> /\ Head(wk[w].todo) = k
    /\ wk'[w].key = k /\ wk'[w].todo # wk[w].todo

\* the path collaborator names task k's output directory and it is not there
DirAbsent(k) == Env(k).haspath /\ ~Env(k).exists

\* nothing was inserted, the key is still eligible and is reported pending
StaysPending(w, k) ==
    /\ db' = db
    /\ k \in Eligible("Processing", db')
    /\ wk'[w].pc = "pass" /\ wk'[w].out[k] = "pending"

\* C7, as amended: Processing.make on an eligible key of the suite2p method
\* whose output directory does not exist inserts nothing, leaves the key
\* eligible and reports it pending
PendingWhenNotRun ==
    [][\A w \in Workers, k \in Tasks :
          (/\ Takes(w, "Processing", k)
           /\ k \in Eligible("Processing", db)
           /\ Method(db, k) = "suite2p"
           /\ DirAbsent(k))
          => StaysPending(w, k)]_vars

\* a suite2p key was reported pending in a Processing pass and is still eligible
PendingWhenNotRunWitness ==
    \E w \in Workers, k \in Tasks :
        /\ wk[w].pc = "pass" /\ wk[w].T = "Processing" /\ wk[w].out[k] = "pending"
        /\ Method(db, k) = "suite2p" /\ DirAbsent(k)
        /\ k \in Eligible("Processing", db)
        /\ RowsFor(db, "Processing", k) = NoRows("Processing")

\* C7, as stated: the same for every eligible key whose output directory does
\* not exist, whatever its method
PendingWhenDirAbsent ==
    [][\A w \in Workers, k \in Tasks :
          (/\ Takes(w, "Processing", k)
           /\ k \in Eligible("Processing", db)
           /\ DirAbsent(k))
          => StaysPending(w, k)]_vars

\* C8: a key whose method is not implemented never has a row in any computed
\* table and stays eligible wherever its parents make it a candidate; when a
\* pass takes it, make raises UnsupportedMethod before any insert and the key
\* is not in the rest of that pass
UnsupportedStaysPending ==
    /\ [](\A k \in Keys(db, "ProcessingTask") :
            Method(db, k) # "suite2p" =>
                \A T \in Computed :
                    /\ \A e \in BOOLEAN :
                           Make(T, k, db, [Env(k) EXCEPT !.exists = e]) = Raise("UnsupportedMethod")
                    /\ RowsFor(db, T, k) = NoRows(T)
                    /\ k \in KeySource(T, db) => k \in Eligible(T, db)
                    /\ \A w \in Workers : wk[w].pc = "run" => wk[w].key # k)
    /\ [][\A w \in Workers, k \in Tasks, T \in Computed :
            (Takes(w, T, k) /\ k \in Eligible(T, db) /\ Method(db, k) \notin {"suite2p", "none"})
            => /\ db' = db
               /\ wk'[w].pc = "pass" /\ wk'[w].out[k] = "UnsupportedMethod"
               /\ k \notin Range(wk'[w].todo)
               /\ k \in Eligible(T, db')]_vars

\* a MotionCorrection pass met a caiman key, reported it and went on
UnsupportedStaysPendingWitness ==
    \E w \in Workers, k \in Tasks :
        /\ wk[w].pc = "pass" /\ wk[w].T = "MotionCorrection"
        /\ wk[w].out[k] = "UnsupportedMethod"
        /\ Method(db, k) = "caiman"
        /\ k \in Eligible("MotionCorrection", db)

\* the keys of w's pass that have been dealt with or are being dealt with
Attempted(w) ==
    {k \in Tasks : wk[w].out[k] # "none"} \cup (IF wk[w].pc = "run" THEN {wk[w].key} ELSE {})

\* C9: whatever the outcome of a key, every key that was eligible when the
\* pass started is attempted or still to be attempted, so that the pass ends
\* with an outcome for each of them
PassCoversSnapshot ==
    \A w \in Workers :
        wk[w].pc # "idle" =>
            /\ wk[w].snap = Attempted(w) \cup Range(wk[w].todo)
            /\ (wk[w].pc = "pass" /\ wk[w].todo = << >>) =>
                   \A k \in wk[w].snap : wk[w].out[k] # "none"

\* a pass is about to end: its first key failed and a later key succeeded
PassCoversSnapshotWitness ==
    \E w \in Workers, k1, k2 \in Tasks :
        /\ wk[w].pc = "pass" /\ wk[w].todo = << >>
        /\ k1 < k2 /\ {k1, k2} \subseteq wk[w].snap
        /\ wk[w].out[k1] \in Failures \ {"Fault"}
        /\ wk[w].out[k2] = "succeeded"

\* C10: every Processing row has a curation_time that is null or not before
\* its completion_time
CurationAfterCompletion ==
    \A r \in db["Processing"] :
        r.curation_time = Null \/ r.curation_time >= r.completion_time

\* C3: of two workers racing on a key, one inserts and the other takes the
\* DuplicateKey (or the row already there) for a no-op: a key is committed at
\* most once, no DuplicateKey is reported as a failure, and the rows of the
\* key are those of one uninterrupted make
OneInsertPerKey ==
    \A T \in Computed, k \in Tasks :
        /\ ncommit[<<T, k>>] <= 1
        /\ ncommit[<<T, k>>] = 1 => RowsFor(db, T, k) = ScriptRows(FullMake(T, k), T)
        /\ \A w \in Workers :
               (wk[w].pc # "idle" /\ wk[w].T = T) =>
                   /\ wk[w].out[k] # "DuplicateKey"
                   /\ wk[w].out[k] \in {"duplicate", "skipped"} => ncommit[<<T, k>>] = 1
        /\ \A w, v \in Workers :
               (w # v /\ wk[w].T = T /\ wk[v].T = T /\ wk[w].out[k] = "succeeded")
               => wk[v].out[k] # "succeeded"

\* both workers ran make on the same key: one succeeded, the other absorbed
\* the DuplicateKey
OneInsertPerKeyWitness ==
    \E T \in Computed, k \in Tasks, w, v \in Workers :
        /\ wk[w].T = T /\ wk[v].T = T
        /\ wk[w].out[k] = "succeeded" /\ wk[v].out[k] = "duplicate"
        /\ RowsFor(db, T, k) = ScriptRows(FullMake(T, k), T)

----------------------------------------------------------------------------
(* Claims about the rows of a motion correction *)

\* the rows of table tab that belong to key k and field p
FieldRows(tab, k, p) == {r \in db[tab] : r.task = k /\ r.field = p}

\* C11: once MotionCorrection.make has succeeded for a key, every plane the
\* loader reports has exactly one RigidMotionCorrection row; a field has a
\* NonRigidMotionCorrection row, and Block rows, exactly when the tool reports
\* non-rigid correction for that plane; every Block row has its
\* NonRigidMotionCorrection row
RigidAndNonRigidRows ==
    \A k \in Tasks :
        ncommit[<<"MotionCorrection", k>>] > 0 =>
            /\ \A p \in Range(Env(k).lay.order) :
                   /\ Cardinality(FieldRows("RigidMotionCorrection", k, p)) = 1
                   /\ FieldRows("NonRigidMotionCorrection", k, p) # {}
                          <=> p \in Env(k).lay.nonrigid
                   /\ FieldRows("Block", k, p) # {} <=> p \in Env(k).lay.nonrigid
            /\ \A r \in db["Block"] :
                   r.task = k => FieldRows("NonRigidMotionCorrection", k, r.field) # {}
            /\ \A tab \in {"RigidMotionCorrection", "NonRigidMotionCorrection", "Block"} :
                   \A r \in db[tab] : r.task = k => r.field \in Range(Env(k).lay.order)

\* a motion correction was committed with one rigid-only plane and one plane
\* corrected non-rigidly as well
RigidAndNonRigidRowsWitness ==
    \E k \in Tasks, p, q \in PlaneIds :
        /\ ncommit[<<"MotionCorrection", k>>] > 0
        /\ FieldRows("RigidMotionCorrection", k, p) # {}
        /\ FieldRows("NonRigidMotionCorrection", k, p) = {}
        /\ FieldRows("RigidMotionCorrection", k, q) # {}
        /\ FieldRows("NonRigidMotionCorrection", k, q) # {}
        /\ Cardinality(FieldRows("Block", k, q)) = Env(k).lay.nblocks

----------------------------------------------------------------------------
(* Claims about the key source of Processing *)

\* the task keys with a ScanInfo for their scan and no Processing row
ReadyTasks(view) ==
    {k \in Tasks : /\ Has(view, "ProcessingTask", <<k>>)
                   /\ Has(view, "ScanInfo", <<ScanOf(k)>>)
                   /\ ~Has(view, "Processing", <<k>>)}

\* C12: eligible(Processing) is exactly the ProcessingTask keys whose scan has
\* ScanInfo and that have no Processing row; no Processing row is written,
\* committed or not, for a task whose scan has no ScanInfo; and the step that
\* adds ScanInfo for a scan leaves its unprocessed tasks eligible
ScanInfoGate ==
    /\ [](/\ Eligible("Processing", db) = ReadyTasks(db)
          /\ \A w \in Workers :
                 (wk[w].pc # "idle" /\ wk[w].T = "Processing") =>
                     \A k \in wk[w].snap : Has(db, "ScanInfo", <<ScanOf(k)>>)
          /\ \A w \in Workers : \A r \in db["Processing"] \cup wk[w].tx["Processing"] :
                 Has(db, "ScanInfo", <<ScanOf(r.task)>>))
    /\ [][\A k \in Tasks :
            (/\ ~Has(db, "ScanInfo", <<ScanOf(k)>>) /\ Has(db', "ScanInfo", <<ScanOf(k)>>)
             /\ Has(db', "ProcessingTask", <<k>>) /\ ~Has(db', "Processing", <<k>>))
            => (k \notin Eligible("Processing", db) /\ k \in Eligible("Processing", db'))]_vars

\* a task was left out of a running Processing pass, its scan having no
\* ScanInfo at the time; ScanInfo has been added since and the task is eligible
ScanInfoGateWitness ==
    \E w \in Workers, k \in Tasks :
        /\ wk[w].pc # "idle" /\ wk[w].T = "Processing" /\ wk[w].snap # {}
        /\ k \notin wk[w].snap /\ wk[w].out[k] = "none"
        /\ ~Scenario(scen[k]).info0
        /\ Has(db, "ScanInfo", <<ScanOf(k)>>)
        /\ k \in Eligible("Processing", db)

----------------------------------------------------------------------------
(* Claims about the deletion of a task *)

\* the tables derived from ProcessingTask
Derived ==
    {"Processing", "ProcessingOutputFile", "MotionCorrection", "RigidMotionCorrection",
     "NonRigidMotionCorrection", "Block", "MotionCorrectedImages", "Segmentation", "Mask",
     "Cell", "MaskClassification", "Fluorescence", "Trace", "DeconvolvedCalciumActivity"}

\* the rows of a table that do not hang on task t
RowsOfOthers(view, tab, t) ==
    IF tab \in Derived \cup {"ProcessingTask"} THEN {r \in view[tab] : r.task # t} ELSE view[tab]

\* C13: the step that deletes a ProcessingTask leaves no row of that task in
\* any derived table and changes no other row of the store; no derived row
\* is ever without its task
CascadeDelete ==
    /\ [](\A tab \in Derived : \A r \in db[tab] : Has(db, "ProcessingTask", <<r.task>>))
    /\ [][\A t \in Tasks :
            (Has(db, "ProcessingTask", <<t>>) /\ ~Has(db', "ProcessingTask", <<t>>))
            => /\ \A tab \in Derived : \A r \in db'[tab] : r.task # t
               /\ \A tab \in TableNames : db'[tab] = RowsOfOthers(db, tab, t)]_vars

\* a task that went through a Fluorescence pass was deleted during the pass:
\* none of its rows is left, while the other task keeps its masks and its
\* MaskClassification row, and the registered files stay
CascadeDeleteWitness ==
    \E w \in Workers, t, u \in Tasks :
        /\ t # u
        /\ wk[w].pc = "pass" /\ wk[w].T = "Fluorescence" /\ wk[w].out[t] = "succeeded"
        /\ ~Has(db, "ProcessingTask", <<t>>)
        /\ \A tab \in Derived : \A r \in db[tab] : r.task # t
        /\ \E r \in db["Cell"] : r.task = u
        /\ Has(db, "MaskClassification", <<u>>)
        /\ db["PhysicalFile"] # {}

----------------------------------------------------------------------------
(* Claims about the resolver *)

\* worker w calls the resolver for T in this step
Resolves(w, T) == wk[w].pc = "idle" /\ wk'[w].pc = "pass" /\ wk'[w].T = T

\* C14: a call of the resolver, for any entity type, leaves the store as it
\* was, and a second call on the store it leaves returns the keys the first
\* one returned
ResolverReadOnly ==
    [][\A w \in Workers, T \in Computed :
          Resolves(w, T) =>
              /\ db' = db /\ dirExists' = dirExists /\ ncommit' = ncommit
              /\ Resolve(T, db').keys = wk'[w].snap
              /\ Resolve(T, Resolve(T, db).store) = Resolve(T, db)]_vars

\* a pass over MotionCorrectedImages has just resolved its keys from a store
\* that holds motion corrections
ResolverReadOnlyWitness ==
    \E w \in Workers :
        /\ wk[w].pc = "pass" /\ wk[w].T = "MotionCorrectedImages"
        /\ wk[w].snap # {} /\ wk[w].todo = SortedSeq(wk[w].snap)
        /\ wk[w].snap = Keys(db, "MotionCorrection") \ Keys(db, "MotionCorrectedImages")

----------------------------------------------------------------------------
(* Claims about the mask ids of the traces *)

\* the Trace rows a running Fluorescence.make of worker w has built
BuiltTraces(w) ==
    IF wk[w].pc = "run" /\ wk[w].T = "Fluorescence"
    THEN UNION {Range(wk[w].stmts[i].rows) :
                    i \in {j \in 1 .. Len(wk[w].stmts) : wk[w].stmts[j].tab = "Trace"}}
    ELSE {}

\* the mask that Segmentation.make stored for local mask i of plane p of key k
MaskOf(k, p, i) == {m \in db["Mask"] : m.task = k /\ m.field = p /\ m.stat[3] = i}

\* C15: every Trace row that Fluorescence.make builds from local trace i of
\* plane p, on either channel, carries the mask id that Segmentation.make
\* gave to local mask i of plane p, and so refers to a Cell of that plane
TraceIdsMatchCells ==
    \A w \in Workers : \A tr \in BuiltTraces(w) :
        Has(db, "Segmentation", <<tr.task>>) =>
            /\ \E m \in MaskOf(tr.task, tr.fluo[2], tr.fluo[3]) : m.mask = tr.mask
            /\ Has(db, "Cell", <<tr.task, tr.mask>>)

----------------------------------------------------------------------------
(* Claims about the order of the writes of a make step *)

PartTables ==
    {"ProcessingOutputFile", "RigidMotionCorrection", "NonRigidMotionCorrection", "Block",
     "Mask", "Cell", "Trace"}

\* the table and the key of the master row, or parent part row, of a part row
PartParent(tab, r) ==
    CASE tab = "ProcessingOutputFile" -> <<"Processing", <<r.task>>>>
      [] tab \in {"RigidMotionCorrection", "NonRigidMotionCorrection"} ->
           <<"MotionCorrection", <<r.task>>>>
      [] tab = "Block" -> <<"NonRigidMotionCorrection", <<r.task, r.field>>>>
      [] tab = "Mask" -> <<"Segmentation", <<r.task>>>>
      [] tab = "Cell" -> <<"Mask", <<r.task, r.mask>>>>
      [] OTHER -> <<"Fluorescence", <<r.task>>>>

\* every part row written so far by w, and every part row of a statement
\* still to come, has its parent written before it
ParentsFirst(w) ==
    /\ \A tab \in PartTables : \A r \in wk[w].tx[tab] :
           Has(wk[w].tx, PartParent(tab, r)[1], PartParent(tab, r)[2])
    /\ \A i \in 1 .. Len(wk[w].stmts) :
           LET st == wk[w].stmts[i]
           IN  st.tab \in PartTables =>
                   \A r \in Range(st.rows) :
                       LET pp == PartParent(st.tab, r)
                       IN  \/ Has(wk[w].tx, pp[1], pp[2])
                           \/ \E j \in 1 .. i - 1 :
                                  /\ wk[w].stmts[j].tab = pp[1]
                                  /\ pp[2] \in PKs(pp[1], wk[w].stmts[j].rows)

\* C16: within a make step the master row is written before its part rows
\* and a parent part row before its own parts; all the rows written for the
\* key are of that key, none of them is in the store while make runs, and
\* the step that ends make puts all of them there at once or none
MasterBeforeParts ==
    /\ [](\A w \in Workers :
            wk[w].pc = "run" =>
                /\ ParentsFirst(w)
                /\ \A tab \in TaskTables : \A r \in wk[w].tx[tab] : r.task = wk[w].key
                /\ RowsFor(db, wk[w].T, wk[w].key) = NoRows(wk[w].T))
    /\ [][\A w \in Workers :
            wk[w].pc = "run" =>
                IF wk'[w].pc = "run"
                THEN wk'[w].tx = wk[w].tx \/ db' = db
                ELSE db' = db \/ db' = Merge(db, wk[w].tx)]_vars

\* a MotionCorrection.make has written its master row, the rows of a plane
\* corrected non-rigidly and its blocks, and none of them is in the store yet
MasterBeforePartsWitness ==
    \E w \in Workers :
        /\ wk[w].pc = "run" /\ wk[w].T = "MotionCorrection"
        /\ wk[w].tx["MotionCorrection"] # {}
        /\ wk[w].tx["NonRigidMotionCorrection"] # {}
        /\ wk[w].tx["Block"] # {}
        /\ RowsFor(db, "MotionCorrection", wk[w].key) = NoRows("MotionCorrection")

----------------------------------------------------------------------------
(* Claims about the blocks of a non-rigid correction *)

\* C17: a plane corrected non-rigidly has one Block row per block of the
\* tool, with the ids 0..n-1, and the row of block b holds the tool's y bounds
\* of b in block_y, its x bounds in block_x, and its y and x shifts in
\* y_shifts and x_shifts
BlockBoundsByAxis ==
    \A nr \in db["NonRigidMotionCorrection"] :
        LET blocks == FieldRows("Block", nr.task, nr.field)
        IN  /\ {r.block_id : r \in blocks} = 0 .. Env(nr.task).lay.nblocks - 1
            /\ Cardinality(blocks) = Env(nr.task).lay.nblocks
            /\ \A r \in blocks :
                   /\ r.block_y = Tag("yblock", r.field, r.block_id)
                   /\ r.block_x = Tag("xblock", r.field, r.block_id)
                   /\ r.y_shifts = Tag("yoff1", r.field, r.block_id)
                   /\ r.x_shifts = Tag("xoff1", r.field, r.block_id)

----------------------------------------------------------------------------
(* Claims about the output files of a Processing *)

\* C18: once Processing.make has succeeded for a key, every regular file
\* directly inside the output directory has exactly one ProcessingOutputFile
\* row of that key and one PhysicalFile row with its path, and the key has no
\* other output-file row; a path registered before the make step raises no
\* DuplicateKey: unless the worker dies, the statement that registers the
\* files adds the paths not yet registered and make goes on
OutputFilesRegistered ==
    /\ [](\A k \in Tasks :
            /\ ncommit[<<"Processing", k>>] > 0 =>
                   /\ Has(db, "Processing", <<k>>)
                   /\ {r.file_path : r \in RowsFor(db, "Processing", k)["ProcessingOutputFile"]}
                          = Env(k).lay.files
                   /\ \A f \in Env(k).lay.files :
                          /\ Cardinality({r \in db["ProcessingOutputFile"] :
                                              r.task = k /\ r.file_path = f}) = 1
                          /\ Cardinality({r \in db["PhysicalFile"] : r.file_path = f}) = 1
            /\ \A w \in Workers :
                   (wk[w].pc # "idle" /\ wk[w].T = "Processing") => wk[w].out[k] # "DuplicateKey")
    /\ [][\A w \in Workers :
            (/\ wk[w].pc = "run" /\ wk[w].T = "Processing" /\ wk[w].stmts # << >>
             /\ Head(wk[w].stmts).tab = "PhysicalFile"
             /\ wk'[w] # wk[w] /\ wk'[w].out[wk[w].key] # "Fault")
            => /\ wk'[w].pc = "run"
               /\ wk'[w].tx["PhysicalFile"]
                      = {r \in Range(Head(wk[w].stmts).rows) : r \notin db["PhysicalFile"]}]_vars

\* two tasks whose output files have the same paths both have their
\* Processing and output-file rows, over one PhysicalFile row per path
OutputFilesRegisteredWitness ==
    \E k, u \in Tasks :
        /\ k # u
        /\ ncommit[<<"Processing", k>>] > 0 /\ ncommit[<<"Processing", u>>] > 0
        /\ \E r \in db["ProcessingOutputFile"] :
               r.task = k /\ [task |-> u, file_path |-> r.file_path] \in db["ProcessingOutputFile"]
        /\ Cardinality(db["PhysicalFile"]) = Cardinality(Env(k).lay.files)

----------------------------------------------------------------------------
(* Claims about the end of the population *)

\* every task uses suite2p, has its ScanInfo and the fields of all its
\* planes, and its output directory is there
AllWellFormed ==
    \A t \in Tasks :
        /\ Method(db, t) = "suite2p" /\ Has(db, "ScanInfo", <<ScanOf(t)>>)
        /\ Env(t).haspath /\ Env(t).exists /\ Env(t).lay.underRoot
        /\ 0 \in Range(Env(t).lay.order)
        /\ \A p \in Range(Env(t).lay.order) : HasField(db, t, p)

Drained == \A T \in Computed : Eligible(T, db) = {}

\* C19: over such a deployment, passes repeated under weak fairness lead to
\* a state from which eligible(T) is empty for all five entity types for good
EventuallyDrained == AllWellFormed => <>[]Drained

====
